---------------------------- MODULE Spec2Model ----------------------------
(***************************************************************************)
(* Model of the ortodoxa-gudstjanster calendar scripts:                    *)
(*   fetch_calendar.py  - HTTP GET, extraction, save to calendar.json      *)
(*   scrape_calendar.py - the same extraction (lines 23-108), printed      *)
(*   print_calendar.py  - the Reporter: loads the JSON file and prints it  *)
(*                                                                         *)
(* A Python str is a sequence of one-character strings.  An optional       *)
(* value (str | None, a missing tag, a missing file) is a sequence of      *)
(* length at most one: None is << >>, a present value v is << v >>.        *)
(***************************************************************************)
EXTENDS Integers, Sequences, FiniteSets, TLC

None == << >>
Some(v) == << v >>
IsNone(o) == o = << >>
Get(o) == o[1]

(***************************************************************************)
(* Characters and str methods                                              *)
(***************************************************************************)
Digits == {"0", "1", "2", "3", "4", "5", "6", "7", "8", "9"}
Letters == {"a", "b", "c", "d", "e", "f", "g", "h", "i", "j", "k", "l", "m",
            "n", "o", "p", "q", "r", "s", "t", "u", "v", "w", "x", "y", "z",
            "A", "B", "C", "D", "E", "F", "G", "H", "I", "J", "K", "L", "M",
            "N", "O", "P", "Q", "R", "S", "T", "U", "V", "W", "X", "Y", "Z"}
\* \w of the re module: alphanumerics and the underscore
IsWord(c) == c \in Letters \cup Digits \cup {"_"}
IsDigit(c) == c \in Digits
\* \s of the re module, and what str.strip() removes
IsSpace(c) == c \in {" ", "\n", "\t"}

MinOf(S) == CHOOSE x \in S : \A y \in S : x <= y
MaxOf(S) == CHOOSE x \in S : \A y \in S : y <= x

\* str.strip()
Strip(s) ==
    LET keep == {i \in 1..Len(s) : ~IsSpace(s[i])}
    IN  IF keep = {} THEN << >> ELSE SubSeq(s, MinOf(keep), MaxOf(keep))

\* the length of a run that starts at i and ends before the first of the
\* positions in stops
RunTo(s, i, stops) ==
    IF stops = {} THEN Len(s) - i + 1 ELSE MinOf(stops) - i
\* the length of the longest run of whitespace (\s*) that starts at i
SpaceRun(s, i) == RunTo(s, i, {j \in i..Len(s) : ~IsSpace(s[j])})
\* the length of the longest run of word characters (\w+) that starts at i
WordRun(s, i) == RunTo(s, i, {j \in i..Len(s) : ~IsWord(s[j])})

\* lit occurs in s at position i
LiteralAt(s, i, lit) ==
    /\ i + Len(lit) - 1 <= Len(s)
    /\ \A j \in 1..Len(lit) : s[i + j - 1] = lit[j]

\* sep.join(ss)
RECURSIVE Join(_, _)
Join(sep, ss) ==
    IF ss = << >> THEN << >>
    ELSE IF Len(ss) = 1 THEN Head(ss)
    ELSE Head(ss) \o sep \o Join(sep, Tail(ss))

(***************************************************************************)
(* The parsed document (what BeautifulSoup hands to fetch_calendar).       *)
(* A node is [k, s, c]: a text node (k = "text", s its characters), a      *)
(* <strong> holding one text (k = "strong"), a <br/> (k = "br") or a <p>   *)
(* holding inline nodes (k = "p", c its children).                         *)
(***************************************************************************)
Text(s) == [k |-> "text", s |-> s, c |-> << >>]
Strong(s) == [k |-> "strong", s |-> s, c |-> << >>]
Br == [k |-> "br", s |-> << >>, c |-> << >>]
Para(c) == [k |-> "p", s |-> << >>, c |-> c]

\* the text nodes below a node, in document order (Tag._all_strings)
RECURSIVE AllStrings(_)
NodeStrings(n) ==
    IF n.k = "text" THEN << n.s >>
    ELSE IF n.k = "strong" THEN (IF n.s = << >> THEN << >> ELSE << n.s >>)
    ELSE IF n.k = "p" THEN AllStrings(n.c)
    ELSE << >>
AllStrings(nodes) ==
    IF nodes = << >> THEN << >>
    ELSE NodeStrings(Head(nodes)) \o AllStrings(Tail(nodes))

\* Tag.get_text(strip=True): every text node stripped, the empty ones
\* dropped, the rest concatenated
RECURSIVE StrippedConcat(_)
StrippedConcat(ss) ==
    IF ss = << >> THEN << >> ELSE Strip(Head(ss)) \o StrippedConcat(Tail(ss))
GetText(nodes) == StrippedConcat(AllStrings(nodes))

\* the "minimal" entity substitution of the output formatter
EscapeChar(c) ==
    IF c = "&" THEN << "&", "a", "m", "p", ";" >>
    ELSE IF c = "<" THEN << "&", "l", "t", ";" >>
    ELSE IF c = ">" THEN << "&", "g", "t", ";" >>
    ELSE << c >>
RECURSIVE EscapeText(_)
EscapeText(s) ==
    IF s = << >> THEN << >> ELSE EscapeChar(Head(s)) \o EscapeText(Tail(s))

\* the markup tokens; every other token of a serialized block is a character
Tags == {"<strong>", "</strong>", "<p>", "</p>", "<br/>"}

\* Tag.decode_contents(): the children serialized back to markup
RECURSIVE DecodeContents(_)
DecodeNode(n) ==
    IF n.k = "text" THEN EscapeText(n.s)
    ELSE IF n.k = "strong" THEN << "<strong>" >> \o EscapeText(n.s) \o << "</strong>" >>
    ELSE IF n.k = "p" THEN << "<p>" >> \o DecodeContents(n.c) \o << "</p>" >>
    ELSE << "<br/>" >>
DecodeContents(nodes) ==
    IF nodes = << >> THEN << >>
    ELSE DecodeNode(Head(nodes)) \o DecodeContents(Tail(nodes))

\* Tag.find('strong'): the first <strong> below, in document order
RECURSIVE FindStrong(_)
FindStrong(nodes) ==
    IF nodes = << >> THEN None
    ELSE LET n == Head(nodes)
             inner == IF n.k = "p" THEN FindStrong(n.c) ELSE None
         IN  IF n.k = "strong" THEN Some(n)
             ELSE IF ~IsNone(inner) THEN inner
             ELSE FindStrong(Tail(nodes))

\* Tag.find_all('p')
FindAllP(nodes) == SelectSeq(nodes, LAMBDA n : n.k = "p")


(***************************************************************************)
(* fetch_calendar: the regular expressions                                 *)
(***************************************************************************)
\* \d{4}-\d{2}-\d{2} at position i
DateAt(s, i) ==
    /\ i + 9 <= Len(s)
    /\ \A j \in {0, 1, 2, 3, 5, 6, 8, 9} : IsDigit(s[i + j])
    /\ s[i + 4] = "-"
    /\ s[i + 7] = "-"

\* the position of the '|' of (\d{4}-\d{2}-\d{2})\s*\| for a date at i
BarPos(s, i) == i + 10 + SpaceRun(s, i + 10)
\* the position where (\w+) starts, after \|\s*
DayPos(s, i) == BarPos(s, i) + 1 + SpaceRun(s, BarPos(s, i) + 1)

\* DateMatchAt with the date itself left unchecked: ten characters, then the
\* separator and the word
DateMatchAtUnchecked(s, i) ==
    /\ i + 9 <= Len(s)
    /\ BarPos(s, i) <= Len(s)
    /\ s[BarPos(s, i)] = "|"
    /\ WordRun(s, DayPos(s, i)) >= 1

\* r'(\d{4}-\d{2}-\d{2})\s*\|\s*(\w+)' matches at position i
DateMatchAt(s, i) ==
    /\ DateAt(s, i)
    /\ BarPos(s, i) <= Len(s)
    /\ s[BarPos(s, i)] = "|"
    /\ WordRun(s, DayPos(s, i)) >= 1

\* re.search(r'(\d{4}-\d{2}-\d{2})\s*\|\s*(\w+)', meta_text): None, or
\* group(1) and group(2) of the leftmost match
DateSearch(s) ==
    LET starts == {i \in 1..Len(s) : DateMatchAt(s, i)}
        i == MinOf(starts)
        d == DayPos(s, i)
    IN  IF starts = {} THEN None
        ELSE Some([date |-> SubSeq(s, i, i + 9),
                   day_of_week |-> SubSeq(s, d, d + WordRun(s, d) - 1)])

\* [^<]: inside serialized markup a '<' only ever opens a tag
NotTag(t) == t \notin Tags
\* the length of the longest run of such characters ([^<]+) that starts at i
TextRun(m, i) == RunTo(m, i, {j \in i..Len(m) : ~NotTag(m[j])})

\* the position of </strong> for <strong>\s*label\s*</strong> at position i
CloseAfterLabel(m, i, label) ==
    LET a == i + 1 + SpaceRun(m, i + 1)
    IN  a + Len(label) + SpaceRun(m, a + Len(label))

\* r'<strong>\s*label\s*</strong>\s*([^<]+)' matches at position i
LabelMatchAt(m, i, label) ==
    /\ m[i] = "<strong>"
    /\ LiteralAt(m, i + 1 + SpaceRun(m, i + 1), label)
    /\ CloseAfterLabel(m, i, label) <= Len(m)
    /\ m[CloseAfterLabel(m, i, label)] = "</strong>"
    /\ TextRun(m, CloseAfterLabel(m, i, label) + 1) >= 1

\* group(1) of that match: \s* is greedy but gives one character back when
\* the whole run up to the next tag is whitespace, since [^<]+ needs one
LabelGroup(m, i, label) ==
    LET k == CloseAfterLabel(m, i, label) + 1
        run == TextRun(m, k)
        ws == SpaceRun(m, k)
    IN  IF ws < run THEN SubSeq(m, k + ws, k + run - 1)
        ELSE SubSeq(m, k + run - 1, k + run - 1)

\* re.search(r'<strong>\s*label\s*</strong>\s*([^<]+)', full_text): None,
\* or group(1) of the leftmost match
LabelSearch(m, label) ==
    LET starts == {i \in 1..Len(m) : LabelMatchAt(m, i, label)}
    IN  IF starts = {} THEN None
        ELSE Some(LabelGroup(m, MinOf(starts), label))

Plats == << "P", "l", "a", "t", "s", ":" >>
Tid == << "T", "i", "d", ":" >>
Unknown == << "U", "n", "k", "n", "o", "w", "n" >>

(***************************************************************************)
(* fetch_calendar: one calendar item                                       *)
(* An item is [meta, content]: meta is None or Some(children of the meta   *)
(* div); content is None or Some([h3, details]) with h3 None or            *)
(* Some(children of the h3) and details None or Some(children of the first *)
(* nested div).                                                            *)
(***************************************************************************)
ChurchService(date, day_of_week, service_name, location, time, occasion, notes) ==
    [date |-> date, day_of_week |-> day_of_week, service_name |-> service_name,
     location |-> location, time |-> time, occasion |-> occasion, notes |-> notes]

\* service_name = h3.get_text(strip=True) if h3 else "Unknown"
ServiceName(h3) == IF IsNone(h3) THEN Unknown ELSE GetText(Get(h3))

\* location: loc_match.group(1).strip(), or None
Location(details) ==
    LET loc_match == LabelSearch(DecodeContents(details), Plats)
    IN  IF IsNone(loc_match) THEN None ELSE Some(Strip(Get(loc_match)))

\* time: time_match.group(1).strip(), or None
Time(details) ==
    LET time_match == LabelSearch(DecodeContents(details), Tid)
    IN  IF IsNone(time_match) THEN None ELSE Some(Strip(Get(time_match)))

\* Occasion as a search for the first <strong> that is not a reserved label,
\* wherever it stands
RECURSIVE OccasionAnywhere(_)
OccasionAnywhere(details) ==
    LET first_strong == FindStrong(details)
        strong_text == GetText(first_strong)
        n == Head(details)
        rest == IF n.k = "p" /\ n.c # << >>
                THEN << Para(Tail(n.c)) >> \o Tail(details)
                ELSE Tail(details)
    IN  IF IsNone(first_strong) THEN None
        ELSE IF n.k = "strong" /\ strong_text # << >> /\ strong_text \notin {Plats, Tid}
        THEN Some(strong_text)
        ELSE OccasionAnywhere(rest)

\* occasion: the text of the first <strong>, unless empty, 'Plats:' or 'Tid:'
Occasion(details) ==
    LET first_strong == FindStrong(details)
        strong_text == GetText(first_strong)
    IN  IF ~IsNone(first_strong) /\ strong_text # << >>
           /\ strong_text \notin {Plats, Tid}
        THEN Some(strong_text) ELSE None

\* the stripped, non-empty texts of the <p> tags
RECURSIVE NoteTexts(_)
NoteTexts(ps) ==
    IF ps = << >> THEN << >>
    ELSE LET p_text == GetText(<< Head(ps) >>)
         IN  (IF p_text # << >> THEN << p_text >> ELSE << >>) \o NoteTexts(Tail(ps))

\* notes: '\n'.join(notes) if notes else None
Notes(details) ==
    LET notes == NoteTexts(FindAllP(details))
    IN  IF notes # << >> THEN Some(Join(<< "\n" >>, notes)) ELSE None

\* Skipped with a fourth `continue`: no heading
SkippedWithoutHeading(item) ==
    \/ IsNone(item.meta)
    \/ IsNone(DateSearch(GetText(Get(item.meta))))
    \/ IsNone(item.content)
    \/ IsNone(Get(item.content).h3)

\* the three `continue`s of the loop body: no meta div, no date in its
\* text, no content div
Skipped(item) ==
    \/ IsNone(item.meta)
    \/ IsNone(DateSearch(GetText(Get(item.meta))))
    \/ IsNone(item.content)

\* one pass of the loop body: None where the body ends in `continue`, else
\* the record it appends
ParseItem(item) ==
    LET date_match == Get(DateSearch(GetText(Get(item.meta))))
        content_div == Get(item.content)
        details_div == content_div.details
        has == ~IsNone(details_div)
    IN  IF Skipped(item) THEN None
        ELSE Some(ChurchService(
                date_match.date,
                date_match.day_of_week,
                ServiceName(content_div.h3),
                IF has THEN Location(Get(details_div)) ELSE None,
                IF has THEN Time(Get(details_div)) ELSE None,
                IF has THEN Occasion(Get(details_div)) ELSE None,
                IF has THEN Notes(Get(details_div)) ELSE None))

\* ParseItems with services.insert(0, ...) for services.append(...)
RECURSIVE ParseItemsPrepending(_, _)
ParseItemsPrepending(items, services) ==
    IF items = << >> THEN services
    ELSE ParseItemsPrepending(Tail(items), ParseItem(Head(items)) \o services)

\* for item in items: ... services.append(...)
RECURSIVE ParseItems(_, _)
ParseItems(items, services) ==
    IF items = << >> THEN services
    ELSE ParseItems(Tail(items), services \o ParseItem(Head(items)))

\* the body of fetch_calendar after the response is parsed: a document is
\* [calendar], None or Some(the calendar-item blocks of the section)
ParseCalendar(soup) ==
    IF IsNone(soup.calendar) THEN << >>
    ELSE ParseItems(Get(soup.calendar), << >>)


(***************************************************************************)
(* The Serializer (fetch_calendar.py main) and the loader of the Reporter  *)
(* A Python value of a record field is None or Some(str).  The JSON file   *)
(* is the array of its objects; an object is the sequence of its           *)
(* << key, literal >> members, a literal being the characters json.dump    *)
(* writes for the value.                                                   *)
(***************************************************************************)
\* dataclasses.asdict: the fields in declaration order
AsDict(service) ==
    << << "date", Some(service.date) >>,
       << "day_of_week", Some(service.day_of_week) >>,
       << "service_name", Some(service.service_name) >>,
       << "location", service.location >>,
       << "time", service.time >>,
       << "occasion", service.occasion >>,
       << "notes", service.notes >> >>

JsonNull == << "n", "u", "l", "l" >>

\* JsonEscapeChar with the backslash written as it is
JsonEscapeCharRawBackslash(c) ==
    IF c = "\"" THEN << "\\", "\"" >>
    ELSE IF c = "\n" THEN << "\\", "n" >>
    ELSE IF c = "\t" THEN << "\\", "t" >>
    ELSE << c >>

\* json.encoder, ensure_ascii=False: the escapes of a string's characters
JsonEscapeChar(c) ==
    IF c = "\"" THEN << "\\", "\"" >>
    ELSE IF c = "\\" THEN << "\\", "\\" >>
    ELSE IF c = "\n" THEN << "\\", "n" >>
    ELSE IF c = "\t" THEN << "\\", "t" >>
    ELSE << c >>
RECURSIVE JsonEscape(_)
JsonEscape(s) ==
    IF s = << >> THEN << >> ELSE JsonEscapeChar(Head(s)) \o JsonEscape(Tail(s))

\* json.dump of one value: null, or the quoted and escaped string
JsonDumpValue(v) ==
    IF IsNone(v) THEN JsonNull
    ELSE << "\"" >> \o JsonEscape(Get(v)) \o << "\"" >>

JsonDumpObject(d) == [i \in 1..Len(d) |-> << d[i][1], JsonDumpValue(d[i][2]) >>]

\* data = [asdict(service) for service in services]; json.dump(data, f, ...)
JsonDump(services) ==
    [i \in 1..Len(services) |-> JsonDumpObject(AsDict(services[i]))]

\* json.decoder: the characters of a string literal's body
RECURSIVE JsonUnescape(_)
JsonUnescape(s) ==
    IF s = << >> THEN << >>
    ELSE IF Head(s) = "\\" /\ Len(s) >= 2
    THEN LET e == s[2]
             c == IF e = "n" THEN "\n" ELSE IF e = "t" THEN "\t" ELSE e
         IN  << c >> \o JsonUnescape(SubSeq(s, 3, Len(s)))
    ELSE << Head(s) >> \o JsonUnescape(Tail(s))

\* json.load of one value
JsonLoadValue(lit) ==
    IF lit = JsonNull THEN None
    ELSE Some(JsonUnescape(SubSeq(lit, 2, Len(lit) - 1)))

\* json.load of one object: a dict, from its keys to their values (the last
\* member of a key wins)
JsonLoadObject(o) ==
    [key \in {o[i][1] : i \in 1..Len(o)} |->
        JsonLoadValue(o[MaxOf({i \in 1..Len(o) : o[i][1] = key})][2])]

\* services = json.load(f)
JsonLoad(text) == [i \in 1..Len(text) |-> JsonLoadObject(text[i])]

(***************************************************************************)
(* The Reporter's output: a printed line is [label, text, n]               *)
(***************************************************************************)
Line(label, text, n) == [label |-> label, text |-> text, n |-> n]

\* dict.get(key): None when the key is missing
DictGet(service, key) ==
    IF key \in DOMAIN service THEN service[key] ELSE None

\* the truth value of service.get(key): a non-empty string
Truthy(v) == ~IsNone(v) /\ Get(v) # << >>

\* the lines the loop body prints for one service
OptionalLine(service, key, label) ==
    IF Truthy(DictGet(service, key))
    THEN << Line(label, Get(service[key]), 0) >> ELSE << >>

ServiceBlock(service) ==
    << Line("date", << "\n" >> \o Get(service["date"]) \o << " ", "(" >>
                     \o Get(service["day_of_week"]) \o << ")" >>, 0),
       Line("Service", Get(service["service_name"]), 0) >>
    \o OptionalLine(service, "occasion", "Occasion")
    \o OptionalLine(service, "time", "Time")
    \o OptionalLine(service, "location", "Location")
    \o OptionalLine(service, "notes", "Notes")


(***************************************************************************)
(* Inputs: the documents the site may serve and the files the Reporter may *)
(* be pointed at                                                           *)
(***************************************************************************)
MaxNodes == 3
MaxItems == 3
MaxSysItems == 2

SeqsUpTo(S, n) == UNION {[1..k -> S] : k \in 0..n}

DateA == << "2", "0", "2", "6", "-", "0", "2", "-", "2", "0" >>
DateB == << "2", "0", "2", "6", "-", "0", "2", "-", "2", "1" >>
DateC == << "2", "0", "2", "5", "-", "1", "2", "-", "2", "4" >>
DateD == << "2", "0", "2", "6", "-", "0", "1", "-", "0", "6" >>
Fre == << "F", "r", "e" >>
Kyr == << "K", "y", "r" >>
Obs == << "O", "b", "s" >>

Item(meta, content) == [meta |-> meta, content |-> content]
Content(h3, details) == [h3 |-> h3, details |-> details]
Soup(calendar) == [calendar |-> calendar]

\* children of a meta div: well-formed ones and malformed ones
GoodMetas ==
    { << Text(DateA \o << " ", "|", " " >> \o Fre) >>,
      << Text(<< " " >> \o DateB \o << "|" >> \o Fre \o << " ", "x" >>) >>,
      << Text(DateC \o << " " >>), Text(<< " ", "|" >>), Strong(<< " ", "_", "1", "-" >>) >>,
      << Text(<< "1" >> \o DateD \o << "\n", "|", "\t" >> \o Fre) >> }
BadMetas ==
    { << >>,
      << Text(<< "2", "0", "2", "6", "-", "2", "-", "2", "0", " ", "|", " " >> \o Fre) >>,
      << Text(DateA \o << " " >> \o Fre) >>,
      << Text(DateA \o << " ", "|", " ", "-" >>) >>,
      << Text(DateA \o << "1", "|" >> \o Fre) >>,
      << Text(<< "2", "0", "2", "6", "0", "2", "2", "0", "|" >> \o Fre) >> }
Metas == {None} \cup {Some(m) : m \in GoodMetas \cup BadMetas}

\* children of an h3
H3s ==
    { << Text(<< " ", "A", "f", " " >>) >>,
      << >>,
      << Text(<< " " >>) >>,
      << Text(<< "A" >>), Strong(<< "f" >>) >> }

\* the nodes a detail block is built from
DetailNodes ==
    { Strong(Plats), Strong(Tid), Strong(Obs),
      Strong(<< " ", "T", "i", "d", ":", " " >>),
      Strong(<< " " >>),
      Text(<< " " >>), Text(<< " ", "K", "y", "r", "&", " " >>),
      Br,
      Para(<< Text(<< " ", "K", "a", "f" >>), Strong(Obs) >>),
      Para(<< Text(<< " " >>) >>) }
Details == SeqsUpTo(DetailNodes, MaxNodes)

AfH3 == Some(<< Text(<< "A", "f" >>) >>)

\* documents with one item: every meta, every h3, every detail block
OneItemDocs ==
    {Soup(Some(<< Item(m, c) >>)) :
        m \in Metas, c \in {None, Some(Content(AfH3, None))}}
    \cup {Soup(Some(<< Item(Some(<< Text(DateA \o << "|" >> \o Fre) >>),
                            Some(Content(h, d))) >>)) :
            h \in {None} \cup {Some(x) : x \in H3s},
            d \in {None, Some(<< Strong(Obs) >>)}}
    \cup {Soup(Some(<< Item(Some(<< Text(DateA \o << "|" >> \o Fre) >>),
                            Some(Content(AfH3, Some(d)))) >>)) : d \in Details}

\* the items the documents of several items are built from
SimpleItems ==
    { Item(Some(<< Text(DateA \o << "|" >> \o Fre) >>), Some(Content(None, None))),
      Item(Some(<< Text(DateB \o << "|" >> \o Fre) >>),
           Some(Content(AfH3, Some(<< Strong(Tid), Text(Kyr) >>)))),
      Item(Some(<< Text(DateC \o << "|" >> \o Fre) >>), None),
      Item(Some(<< Text(DateD \o << "|" >> \o Fre) >>), Some(Content(Some(<< >>), None))),
      Item(Some(<< Text(DateA \o Fre) >>), Some(Content(AfH3, None))),
      Item(None, Some(Content(AfH3, None))) }
ManyItemDocs == {Soup(Some(items)) : items \in SeqsUpTo(SimpleItems, MaxItems)}

NoCalendar == Soup(None)
ExtractDocs == {NoCalendar} \cup OneItemDocs \cup ManyItemDocs

\* the documents of the whole-system specification: built from a minimal
\* item and an item with every field set, or holding one skipped item
SysItems ==
    { Item(Some(<< Text(DateA \o << "|" >> \o Fre) >>), Some(Content(None, None))),
      Item(Some(<< Text(DateB \o << "|" >> \o Fre) >>),
           Some(Content(Some(<< Text(<< "\"", "A", "\\" >>) >>),
                        Some(<< Strong(JsonNull), Strong(Plats), Text(<< "\\", "n" >>),
                                Strong(Tid), Text(<< " " >>),
                                Para(<< Text(<< "\\", "\"" >>) >>),
                                Para(<< Text(JsonNull) >>) >>)))) }
SkippedDoc == Soup(Some(<< Item(Some(<< Text(DateA \o Fre) >>), Some(Content(AfH3, None))) >>))
SysDocs ==
    {NoCalendar, SkippedDoc}
    \cup {Soup(Some(items)) : items \in SeqsUpTo(SysItems, MaxSysItems)}

\* the bodies of error responses: an error page, or a calendar all the same
ErrorDocs ==
    { NoCalendar,
      Soup(Some(<< Item(Some(<< Text(DateC \o << "|" >> \o Fre) >>),
                        Some(Content(AfH3, None))) >>)) }

\* the status codes the server may answer with
HttpStatuses == {200, 404, 500}
Bodies(status) == IF status = 200 THEN SysDocs ELSE ErrorDocs

\* the files another path on the command line may name: a missing file, an
\* empty array, an array of one record
ArgvFiles ==
    { None, Some(<< >>),
      Some(JsonDump(<< ChurchService(DateC, Fre, Unknown, None, Some(Kyr), None, None) >>)) }


(***************************************************************************)
(* State                                                                   *)
(***************************************************************************)
VARIABLES
    fpc,        \* fetch_calendar.py: "idle", "got" (response in hand), "parsed"
    response,   \* the response of requests.get: None, or Some([status, soup])
    services,   \* the list fetch_calendar builds and returns to main
    fout,       \* how the last run of fetch_calendar.py went: "none",
                \* "running", "raised", "empty" (No services found.), "saved"
    file,       \* calendar.json: None while missing, else Some(its JSON array)
    rpc,        \* print_calendar.py: "idle", "loop", "done"
    rservices,  \* the list json.load returned
    ri,         \* how many services the loop has printed
    rout,       \* the lines printed so far
    rexit       \* the exit status once rpc = "done"

vars == << fpc, response, services, fout, file, rpc, rservices, ri, rout, rexit >>
fetchVars == << fpc, response, services, fout, file >>
reportVars == << rpc, rservices, ri, rout, rexit >>

Init ==
    /\ fpc = "idle"
    /\ response = None
    /\ services = << >>
    /\ fout = "none"
    /\ file = None
    /\ rpc = "idle"
    /\ rservices = << >>
    /\ ri = 0
    /\ rout = << >>
    /\ rexit = 0

(***************************************************************************)
(* fetch_calendar.py                                                       *)
(***************************************************************************)
\* RaiseForStatus raising for server errors only
RaiseForServerError(status) == status >= 500 /\ status < 600

\* response.raise_for_status(): raises for a 4xx or 5xx status
RaiseForStatus(status) == status >= 400 /\ status < 600

\* main calls fetch_calendar: requests.get(url) raises (no response), or
\* answers; raise_for_status() then raises or lets the run go on.  An
\* exception ends the run: main catches nothing.
FetchGet ==
    /\ fpc = "idle"
    /\ services' = << >>
    /\ file' = file
    /\ \/ /\ response' = None
          /\ fpc' = "idle"
          /\ fout' = "raised"
       \/ \E status \in HttpStatuses : \E soup \in Bodies(status) :
            /\ response' = Some([status |-> status, soup |-> soup])
            /\ IF RaiseForStatus(status)
               THEN fpc' = "idle" /\ fout' = "raised"
               ELSE fpc' = "got" /\ fout' = "running"
    /\ UNCHANGED reportVars

\* soup = BeautifulSoup(response.text, 'html.parser') ... return services
FetchParse ==
    /\ fpc = "got"
    /\ services' = ParseCalendar(Get(response).soup)
    /\ fpc' = "parsed"
    /\ UNCHANGED << response, fout, file >>
    /\ UNCHANGED reportVars

\* NoServices without the early return: the file is always written
NoServicesNever(found) == FALSE

\* `if not services`: main returns before the file is opened
NoServices(found) == found = << >>

\* the rest of main: "No services found.", or the JSON file is written
FetchSave ==
    /\ fpc = "parsed"
    /\ IF NoServices(services)
       THEN fout' = "empty" /\ file' = file
       ELSE fout' = "saved" /\ file' = Some(JsonDump(services))
    /\ fpc' = "idle"
    /\ UNCHANGED << response, services >>
    /\ UNCHANGED reportVars

(***************************************************************************)
(* print_calendar.py                                                       *)
(***************************************************************************)
Ruler == Line("=" , << >>, 60)

\* what main prints before the loop, given the loaded list
Preamble(loaded) ==
    IF loaded = << >>
    THEN << Line("No services found in calendar.", << >>, 0) >>
    ELSE << Line("Church Services Calendar", << >>, 0), Ruler >>

\* the input file is opened and loaded (FileNotFoundError: exit status 1);
\* an empty list ends the run, otherwise the heading is printed
ReportLoad(input_file) ==
    /\ rpc \in {"idle", "done"}
    /\ ri' = 0
    /\ IF IsNone(input_file)
       THEN /\ rservices' = << >>
            /\ rout' = << Line("Error: not found", << >>, 0) >>
            /\ rexit' = 1
            /\ rpc' = "done"
       ELSE /\ rservices' = JsonLoad(Get(input_file))
            /\ rout' = Preamble(rservices')
            /\ rexit' = 0
            /\ rpc' = IF rservices' = << >> THEN "done" ELSE "loop"
    /\ UNCHANGED fetchVars

\* run without an argument: the default calendar.json
ReportDefault == ReportLoad(file)

\* run with a path on the command line
ReportArgv == \E other \in ArgvFiles : ReportLoad(other)

\* one pass of `for service in services`
ReportService ==
    /\ rpc = "loop"
    /\ ri < Len(rservices)
    /\ rout' = rout \o ServiceBlock(rservices[ri + 1])
    /\ ri' = ri + 1
    /\ UNCHANGED << rpc, rservices, rexit >>
    /\ UNCHANGED fetchVars

\* TotalServices counting from zero
TotalServicesOffByOne(loaded) == Len(loaded) - 1

\* the count main prints after the loop
TotalServices(loaded) == Len(loaded)

\* after the loop: the ruler and the total
ReportTotal ==
    /\ rpc = "loop"
    /\ ri = Len(rservices)
    /\ rout' = rout \o << Ruler, Line("Total services", << >>, TotalServices(rservices)) >>
    /\ rpc' = "done"
    /\ UNCHANGED << rservices, ri, rexit >>
    /\ UNCHANGED fetchVars

Next ==
    \/ FetchGet
    \/ FetchParse
    \/ FetchSave
    \/ ReportDefault
    \/ ReportArgv
    \/ ReportService
    \/ ReportTotal

Spec == Init /\ [][Next]_vars

\* print_calendar.py is a sequential program: once started, it goes on to its
\* end
FairSpec == Spec /\ WF_vars(ReportService) /\ WF_vars(ReportTotal)

(***************************************************************************)
(* The extraction alone: fetch_calendar applied to every document of       *)
(* ExtractDocs, each taken as the body of a successful response            *)
(***************************************************************************)
InitExtract ==
    /\ fpc = "got"
    /\ response \in {Some([status |-> 200, soup |-> soup]) : soup \in ExtractDocs}
    /\ services = << >>
    /\ fout = "running"
    /\ file = None
    /\ rpc = "idle"
    /\ rservices = << >>
    /\ ri = 0
    /\ rout = << >>
    /\ rexit = 0

NextExtract == FetchParse

SpecExtract == InitExtract /\ [][NextExtract]_vars


(***************************************************************************)
(* Claims about the extraction (checked under SpecExtract)                 *)
(***************************************************************************)
Parsed == fpc = "parsed"
\* the calendar-item blocks of the document that was parsed
Blocks ==
    IF IsNone(response) \/ IsNone(Get(response).soup.calendar) THEN << >>
    ELSE Get(Get(response).soup.calendar)

\* d has the lexical form YYYY-MM-DD
IsoDate(d) ==
    /\ Len(d) = 10
    /\ \A j \in {1, 2, 3, 4, 6, 7, 9, 10} : d[j] \in Digits
    /\ d[5] = "-"
    /\ d[8] = "-"

\* <4 digits>-<2 digits>-<2 digits>, optional whitespace, '|', optional
\* whitespace, word: the pattern occurs in t with its date at position i
PatternAt(t, i) ==
    /\ i + 9 <= Len(t)
    /\ IsoDate(SubSeq(t, i, i + 9))
    /\ \E a \in (i + 10)..Len(t) :
        /\ \A j \in (i + 10)..(a - 1) : t[j] \in {" ", "\n", "\t"}
        /\ t[a] = "|"
        /\ \E b \in (a + 1)..Len(t) :
            /\ \A j \in (a + 1)..(b - 1) : t[j] \in {" ", "\n", "\t"}
            /\ t[b] \in Letters \cup Digits \cup {"_"}
MatchesPattern(t) == \E i \in 1..Len(t) : PatternAt(t, i)

\* the flattened text of an entry's metadata sub-block
MetaText(item) == GetText(Get(item.meta))
MetaMatches(item) == ~IsNone(item.meta) /\ MatchesPattern(MetaText(item))
\* the date an entry carries: that of the first occurrence of the pattern
DateOfEntry(item) ==
    LET t == MetaText(item)
        i == MinOf({j \in 1..Len(t) : PatternAt(t, j)})
    IN  SubSeq(t, i, i + 9)

\* the entries the claims call well-formed, in document order
Emitted(item) == MetaMatches(item) /\ ~IsNone(item.content)
EmittedBlocks == SelectSeq(Blocks, Emitted)
MatchingBlocks == SelectSeq(Blocks, MetaMatches)

Distinct(seq) == \A i, j \in 1..Len(seq) : i # j => seq[i] # seq[j]
DatesOf(recs) == [i \in 1..Len(recs) |-> recs[i].date]
EntryDates(entries) == [i \in 1..Len(entries) |-> DateOfEntry(entries[i])]

\* C1: no record is emitted for an entry whose metadata text does not match
\* the date pattern: there are never more records than entries with matching
\* metadata (so never more than blocks), a document without such an entry
\* yields none, and every record's date has the form YYYY-MM-DD, is the date
\* of a matching entry, and comes with a non-empty day_of_week.
C1_MalformedEntriesDropped ==
    Parsed =>
        /\ Len(services) <= Len(MatchingBlocks)
        /\ Len(MatchingBlocks) <= Len(Blocks)
        /\ \A i \in 1..Len(services) :
            /\ IsoDate(services[i].date)
            /\ services[i].day_of_week # << >>
            /\ \E k \in 1..Len(MatchingBlocks) :
                 DateOfEntry(MatchingBlocks[k]) = services[i].date

\* C1 witness: a parsed document with an entry whose metadata is present but
\* malformed, dropped, beside an entry that yielded a record.
C1_Witness ==
    /\ Parsed
    /\ \E k \in 1..Len(Blocks) : ~IsNone(Blocks[k].meta) /\ ~MetaMatches(Blocks[k])
    /\ Len(services) >= 1
    /\ Len(services) < Len(Blocks)

\* C2 (as claimed): every returned record has a non-empty service_name.
C2_ServiceNameNonEmpty ==
    Parsed => \A i \in 1..Len(services) : services[i].service_name # << >>

\* C3 (as claimed): in every returned record location, time, occasion and
\* notes are each unset or a non-empty string.
C3_OptionalNeverEmpty ==
    Parsed =>
        \A i \in 1..Len(services) :
            \A v \in {services[i].location, services[i].time,
                      services[i].occasion, services[i].notes} :
                IsNone(v) \/ Get(v) # << >>

\* the bold label tokens of a detail block, in document order
RECURSIVE BoldTokens(_)
BoldTokens(nodes) ==
    IF nodes = << >> THEN << >>
    ELSE LET n == Head(nodes)
         IN  (IF n.k = "strong" THEN << n.s >>
              ELSE IF n.k = "p" THEN BoldTokens(n.c)
              ELSE << >>) \o BoldTokens(Tail(nodes))

\* what C4 says occasion is, given the detail block
OccasionOfFirstToken(details) ==
    LET tokens == BoldTokens(details)
        trimmed == Strip(tokens[1])
    IN  IF tokens # << >> /\ trimmed # << >> /\ trimmed # Plats /\ trimmed # Tid
        THEN Some(trimmed) ELSE None

C5_AsClaimed ==
    (Parsed /\ Len(MatchingBlocks) = Len(Blocks) /\ Distinct(EntryDates(Blocks))) =>
        /\ Len(services) = Len(Blocks)
        /\ DatesOf(services) = EntryDates(Blocks)

\* C5 (amended): with N entries whose metadata matches the date pattern and
\* whose content sub-block exists, of distinct dates, exactly N records are
\* returned, the i-th carrying the date of the i-th such entry: no re-sorting,
\* duplication or merging.
C5_OrderPreserved ==
    (Parsed /\ Distinct(EntryDates(EmittedBlocks))) =>
        /\ Len(services) = Len(EmittedBlocks)
        /\ DatesOf(services) = EntryDates(EmittedBlocks)
        /\ Distinct(DatesOf(services))

\* C5 witness: three such entries whose dates are not in ascending order,
\* returned as three records in document order.
C5_Witness ==
    /\ Parsed
    /\ Len(EmittedBlocks) = 3
    /\ Distinct(EntryDates(EmittedBlocks))
    /\ DatesOf(services) = << DateB, DateD, DateA >>

\* C9: an entry yields a record exactly when its metadata sub-block exists and
\* matches the date pattern and its content sub-block exists (a missing
\* heading or detail sub-block never prevents it); without a detail sub-block
\* the record's location, time, occasion and notes are all unset.
C9_EmittedIffDateAndContent ==
    Parsed =>
        /\ Len(services) = Len(EmittedBlocks)
        /\ \A i \in 1..Len(EmittedBlocks) :
            /\ i <= Len(services)
            /\ services[i].date = DateOfEntry(EmittedBlocks[i])
            /\ IsNone(Get(EmittedBlocks[i].content).details) =>
                /\ IsNone(services[i].location)
                /\ IsNone(services[i].time)
                /\ IsNone(services[i].occasion)
                /\ IsNone(services[i].notes)

\* C9 witness: an entry with neither heading nor detail sub-block yielded a
\* minimal record, beside an entry without content sub-block that yielded none.
C9_Witness ==
    /\ Parsed
    /\ Len(services) = 1
    /\ \E k \in 1..Len(Blocks) : MetaMatches(Blocks[k]) /\ IsNone(Blocks[k].content)
    /\ \E k \in 1..Len(Blocks) :
        /\ Emitted(Blocks[k])
        /\ IsNone(Get(Blocks[k].content).h3)
        /\ IsNone(Get(Blocks[k].content).details)
    /\ services[1].service_name = Unknown
    /\ IsNone(services[1].location) /\ IsNone(services[1].notes)


(***************************************************************************)
(* Claims about the scripts (checked under Spec)                           *)
(***************************************************************************)
RecordKeys ==
    {"date", "day_of_week", "service_name", "location", "time", "occasion", "notes"}

\* the loaded object d equals the record field for field
SameFields(d, service) ==
    /\ DOMAIN d = RecordKeys
    /\ d["date"] = Some(service.date)
    /\ d["day_of_week"] = Some(service.day_of_week)
    /\ d["service_name"] = Some(service.service_name)
    /\ d["location"] = service.location
    /\ d["time"] = service.time
    /\ d["occasion"] = service.occasion
    /\ d["notes"] = service.notes

\* C6: once a run has saved its (non-empty) records, loading calendar.json
\* gives an array of the same length and order whose objects have exactly the
\* seven keys, equal field for field to the records, unset fields being null.
C6_SerializationRoundTrip ==
    fout = "saved" =>
        /\ services # << >>
        /\ ~IsNone(file)
        /\ Len(JsonLoad(Get(file))) = Len(services)
        /\ \A i \in 1..Len(services) : SameFields(JsonLoad(Get(file))[i], services[i])

\* C6 witness: a saved run of two records, one with every optional field
\* unset, one with a backslash in its location and two paragraphs of notes.
C6_Witness ==
    /\ fout = "saved"
    /\ Len(services) = 2
    /\ \E i \in 1..2 : IsNone(services[i].location) /\ IsNone(services[i].notes)
    /\ \E i \in 1..2 :
        /\ ~IsNone(services[i].location)
        /\ \E k \in 1..Len(Get(services[i].location)) : Get(services[i].location)[k] = "\\"
        /\ ~IsNone(services[i].notes)
        /\ \E k \in 1..Len(Get(services[i].notes)) : Get(services[i].notes)[k] = "\n"

\* the lines that open a record's block
DateLines == SelectSeq(rout, LAMBDA l : l.label = "date")
DateLineOf(service) ==
    << "\n" >> \o Get(service["date"]) \o << " ", "(" >>
        \o Get(service["day_of_week"]) \o << ")" >>
LastLine == rout[Len(rout)]
ReadOk == rpc = "done" /\ rexit = 0

\* C7 (as claimed): whenever the Reporter has read an array and finished, it
\* has printed one block per record, in order, and last the total count.
C7_AsClaimed ==
    ReadOk =>
        /\ Len(DateLines) = Len(rservices)
        /\ LastLine.label = "Total services"
        /\ LastLine.n = Len(rservices)

\* what the Reporter has printed is right for where it stands
PrintedSoFar ==
    /\ rpc = "loop" =>
        /\ Len(DateLines) = ri
        /\ \A i \in 1..ri : i <= Len(rservices) /\ DateLines[i].text = DateLineOf(rservices[i])
        /\ \A k \in 1..Len(rout) : rout[k].label # "Total services"
    /\ (ReadOk /\ rservices # << >>) =>
        /\ Len(DateLines) = Len(rservices)
        /\ \A i \in 1..Len(rservices) : DateLines[i].text = DateLineOf(rservices[i])
        /\ LastLine.label = "Total services"
        /\ LastLine.n = Len(rservices)
        /\ \A k \in 1..(Len(rout) - 1) : rout[k].label # "Total services"
    /\ (ReadOk /\ rservices = << >>) =>
        rout = << Line("No services found in calendar.", << >>, 0) >>

\* C7 (amended): for a non-empty array the Reporter prints one block per
\* record in array order (while looping, one per record passed, and no total
\* yet), and then finishes, the total count, equal to the number of records,
\* being its last line; an empty array gets the single line "No services
\* found in calendar.".
C7_BlocksThenTotal ==
    /\ []PrintedSoFar
    /\ (rpc = "loop") ~> (ReadOk /\ LastLine.n = Len(rservices))

\* C7 witness: the Reporter finished an array of two records with distinct
\* dates, the total 2 being its last line.
C7_Witness ==
    /\ ReadOk
    /\ Len(rservices) = 2
    /\ rservices[1]["date"] # rservices[2]["date"]
    /\ LastLine = Line("Total services", << >>, 2)

\* the HTTP GET of the current run failed: no response, or a status that is
\* not a success
HttpFailed ==
    /\ fout # "none"
    /\ IsNone(response) \/ Get(response).status \notin 200..299

C10_EmptyRunLeavesFile ==
    /\ [][/\ file' # file => (fpc = "parsed" /\ services # << >> /\ fout' = "saved")
          /\ (fpc = "parsed" /\ fpc' = "idle" /\ services = << >>) =>
                (file' = file /\ fout' = "empty")]_vars
    /\ [](~IsNone(file) => Get(file) # << >>)

\* C10 witness: after a run that found no services the file of an earlier run
\* is still there, and the Reporter, run on it, printed its two records.
C10_Witness ==
    /\ fout = "empty"
    /\ ~IsNone(file)
    /\ ReadOk
    /\ rservices = JsonLoad(Get(file))
    /\ Len(DateLines) = 2
    /\ LastLine.n = 2

=============================================================================
